---- MODULE Spec2Model ----
(***************************************************************************)
(* State-machine model of pongGame.py: the frame loop of PongGame.run,     *)
(* the key-event state machine, handle_input / ai_move, and the            *)
(* simulation step update_playing with its helpers.                        *)
(*                                                                         *)
(* Number representation (the source uses Python floats):                  *)
(*   - lengths and positions are integers in 1/100 pixel (Px(n) = n px);   *)
(*   - times are integers in milliseconds (clock.tick returns integer ms); *)
(*   - speeds are integers in 1/100 pixel per second;                      *)
(*   - direction components (vx, vy) are integers in 1/1000;               *)
(*   - dimensionless factors (boost_multiplier, ai_reaction,               *)
(*     ai_max_speed_factor) are integers in 1/100.                         *)
(* Products are rounded toward zero (Div) where the float code rounds to   *)
(* nearest.                                                                *)
(***************************************************************************)
EXTENDS Integers, Sequences, FiniteSets, TLC

\* ------------------------------------------------------------ bounds
\* Simulation steps (handle_input + update_playing) the loop of run() is
\* followed for.
MaxSteps == 7
\* The same, for the runs with every combination of held keys.
MaxInputSteps == 3
\* The same, for the long rallies in regular frames.
MaxRallySteps == 2600

\* The same, for the runs in which a hand-held right paddle sends the ball to
\* the walls.
MaxWallSteps == 6

\* The same, for the matches long enough for both players to come within one
\* point of winning.
MaxScoreSteps == 15

\* ------------------------------------------------------------ Config
width == 900
height == 540
paddle_w == 14
paddle_h == 110
\* 420.0 px/s, in 1/100 px per second
paddle_speed == 42000
ball_radius == 10
\* 360.0 px/s and 860.0 px/s, in 1/100 px per second
ball_speed == 36000
ball_speed_max == 86000
score_to_win == 7
powerup_radius == 12
\* 7.0 s and 1.2 s, in milliseconds
powerup_spawn_every_sec == 7000
boost_duration_sec == 1200
\* 1.35, 0.10 and 0.92, in 1/100
boost_multiplier == 135
ai_reaction == 10
ai_max_speed_factor == 92
\* Paddle distance from the side walls (left.x = 28, right.x = width - 28 - w)
paddle_inset == 28
\* spawn_powerup: horizontal margin and vertical margin of the spawn area
margin == 120
margin_y == 80
\* ai_move: the dead zone, in pixels
ai_dead_zone == 2

\* ------------------------------------------------------------ GameState
MENU == "menu"
PLAYING == "playing"
PAUSED == "paused"
GAMEOVER == "gameover"
GameStates == {MENU, PLAYING, PAUSED, GAMEOVER}

\* ------------------------------------------------------------ arithmetic
\* n pixels in 1/100 pixel
Px(n) == n * 100

\* Division rounding toward zero (Python's int() and the sign symmetry of
\* float products).
Div(a, b) == IF a >= 0 THEN a \div b ELSE -((-a) \div b)

Abs(a) == IF a >= 0 THEN a ELSE -a

Min(a, b) == IF a <= b THEN a ELSE b

Max(a, b) == IF a >= b THEN a ELSE b

\* int(v) of a position v held in 1/100 pixel: whole pixels, toward zero
Trunc(v) == Div(v, 100)

clamp(v, lo, hi) == Max(lo, Min(hi, v))

\* Integer square root by bisection: the r in lo..hi with r*r <= n < (r+1)*(r+1)
RECURSIVE Bisect(_, _, _)
Bisect(n, lo, hi) ==
    IF lo >= hi THEN lo
    ELSE LET mid == (lo + hi + 1) \div 2
         IN  IF mid * mid <= n THEN Bisect(n, mid, hi) ELSE Bisect(n, lo, mid - 1)

\* Vector2.length() of a direction in 1/1000 is at most 2000
ISqrt(n) == Bisect(n, 0, 2000)

Length(vx, vy) == ISqrt(vx * vx + vy * vy)

\* v.normalize() of a non-zero direction, components in 1/1000
Normalize(vx, vy) ==
    LET len == Length(vx, vy)
    IN  [vx |-> Div(vx * 1000, len), vy |-> Div(vy * 1000, len)]

\* pygame.Rect of a paddle, in whole pixels
PaddleRect(p) == [left |-> Trunc(p.x), top |-> Trunc(p.y), w |-> p.w, h |-> p.h]

center_y(p) == p.y + Div(Px(p.h), 2)

\* Rect.colliderect: the rectangles overlap (touching edges do not)
colliderect(a, b) ==
    /\ a.left < b.left + b.w
    /\ a.top < b.top + b.h
    /\ a.left + a.w > b.left
    /\ a.top + a.h > b.top

\* ------------------------------------------------------------ inputs
\* clock.tick(fps) / 1000.0, in milliseconds. A regular 60 fps frame is
\* 17 ms; the others are stalled frames: in 1110 ms a ball served straight
\* reaches the right paddle, and in two more such frames the left one;
\* 7000 ms carries any serve into a goal and is one power-up interval.
RegularFrame == {17}
StalledFrames == {1110, 7000}

\* Two shorter stalls that add up to 1110 ms: in 150 ms a held key moves a
\* paddle by 63 px, little enough for the paddle to still meet the ball, off
\* its centre.
ShortStalls == {150, 960}

\* random.uniform(-0.35, 0.35): the serve angles considered, each as
\* [cos, sin] in 1/1000 (-0.35 rad, 0 rad, 0.35 rad).
ServeAngles == {[cos |-> 939, sin |-> -343], [cos |-> 1000, sin |-> 0],
                [cos |-> 939, sin |-> 343]}

\* random.choice([-1, 1]) and the angle, as reset_round receives them
random_ball_direction(angles) == [dir_x : {-1, 1}, angle : angles]

\* random.randint(margin, width - margin) x random.randint(80, height - 80):
\* the spawn positions considered, in pixels (two corners and the centre).
SpawnPoints == {[x |-> margin, y |-> margin_y],
                [x |-> width \div 2, y |-> height \div 2],
                [x |-> width - margin, y |-> height - margin_y]}

\* pygame.key.get_pressed(): the keys handle_input reads
HeldKeys == {"K_w", "K_s", "K_UP", "K_DOWN", "K_SHIFT"}

\* What the surroundings of the loop supply in a run: the frame times, the
\* sets of held keys, the serve angles, and how many simulation steps the
\* run is followed for.
\*   MatchEnv: whole matches, played in stalled frames.
\*   InputEnv: short runs with every combination of held keys.
\*   RallyEnv: long rallies in regular frames: straight serves, the left
\*             paddle left alone and the right one played by the AI.
\*   ScoreEnv: long matches in stalled frames: straight serves and no key
\*             held, so that either player can score point after point.
\*   WallEnv:  short runs in which the right paddle is held by hand (SHIFT),
\*             so that it meets the ball off its centre and sends it to the
\*             top or bottom wall.
MatchEnv ==
    [times |-> StalledFrames,
     keysets |-> {{}, {"K_w"}, {"K_SHIFT", "K_DOWN"}},
     angles |-> ServeAngles,
     max_steps |-> MaxSteps]

RallyEnv ==
    [times |-> RegularFrame,
     keysets |-> {{}},
     angles |-> {[cos |-> 1000, sin |-> 0]},
     max_steps |-> MaxRallySteps]

InputEnv ==
    [times |-> RegularFrame \cup {1110},
     keysets |-> SUBSET HeldKeys,
     angles |-> ServeAngles,
     max_steps |-> MaxInputSteps]

WallEnv ==
    [times |-> ShortStalls,
     keysets |-> {{}, {"K_SHIFT"}, {"K_SHIFT", "K_UP"}, {"K_SHIFT", "K_DOWN"}},
     angles |-> ServeAngles,
     max_steps |-> MaxWallSteps]

ScoreEnv ==
    [times |-> StalledFrames,
     keysets |-> {{}},
     angles |-> {[cos |-> 1000, sin |-> 0]},
     max_steps |-> MaxScoreSteps]

\* ------------------------------------------------------------ state
VARIABLES
    state,          \* GameState
    left, right,    \* Paddle records
    ball,           \* Ball record
    left_score, right_score,
    powerup,        \* <<>> (None) or <<PowerUp record>>
    powerup_timer,  \* ms
    boost_timer,    \* ms
    dt,             \* this frame's elapsed time, ms
    pc,             \* position in run(): "tick", "events", "update", "quit"
    steps,          \* simulation steps run so far (observation only)
    env,            \* the inputs this run draws from (fixed)
    rally_hits,     \* paddle contacts since the last serve (observation only)
    last_bounce,    \* the paddle of the last contact since the last serve:
                    \* "left", "right" or "none" (observation only)
    since_taken,    \* Playing ms since a power-up was last taken, -1 if never
                    \* since the start or restart (observation only)
    obs             \* what the last simulation step did (observation only)

entities == <<left, right, ball, left_score, right_score, powerup,
              powerup_timer, boost_timer>>

vars == <<state, left, right, ball, left_score, right_score, powerup,
          powerup_timer, boost_timer, dt, pc, steps, env, rally_hits, last_bounce, since_taken, obs>>

None == <<>>

\* ------------------------------------------------------------ serve
reset_round(b, serve_to_left, rnd) ==
    LET dir_x == IF serve_to_left THEN -1 ELSE 1
        vx == dir_x * rnd.angle.cos
        vy == rnd.angle.sin
        v0 == IF Length(vx, vy) = 0 THEN [vx |-> dir_x * 1000, vy |-> 100]
              ELSE [vx |-> vx, vy |-> vy]
        v == Normalize(v0.vx, v0.vy)
    IN  [b EXCEPT !.x = Div(Px(width), 2), !.y = Div(Px(height), 2),
                  !.speed = ball_speed, !.vx = v.vx, !.vy = v.vy]

\* ------------------------------------------------------------ PongGame.__init__
NewPaddle(x) ==
    [x |-> Px(x), y |-> Div(Px(height), 2) - Div(Px(paddle_h), 2),
     w |-> paddle_w, h |-> paddle_h, speed |-> paddle_speed]

NewBall ==
    [x |-> Div(Px(width), 2), y |-> Div(Px(height), 2), r |-> ball_radius,
     vx |-> 1000, vy |-> 0, speed |-> ball_speed]

\* The observation record before any simulation step of the frame
NoObs ==
    [stepped |-> FALSE, restarted |-> FALSE, spawned |-> FALSE, boosted |-> FALSE,
     bounce_left |-> FALSE, bounce_right |-> FALSE,
     wall_top |-> FALSE, wall_bottom |-> FALSE,
     contact |-> FALSE, goal_left |-> FALSE, goal_right |-> FALSE,
     at_start |-> NewBall,
     at_move |-> NewBall, at_wall |-> NewBall, at_paddles |-> NewBall,
     at_contact |-> NewBall, at_goal |-> NewBall,
     powerup_at_contact |-> None, boost_at_move |-> 0, boost_at_contact |-> 0,
     powerup_at_goal |-> None, boost_at_goal |-> 0]

InitEnv(e) ==
    /\ env = e
    /\ state = MENU
    /\ left = NewPaddle(paddle_inset)
    /\ right = NewPaddle(width - paddle_inset - paddle_w)
    /\ \E rnd \in random_ball_direction(e.angles) :
          ball = reset_round(NewBall, FALSE, rnd)
    /\ left_score = 0
    /\ right_score = 0
    /\ powerup = None
    /\ powerup_timer = 0
    /\ boost_timer = 0
    /\ dt = 0
    /\ pc = "tick"
    /\ steps = 0
    /\ rally_hits = 0
    /\ last_bounce = "none"
    /\ since_taken = -1
    /\ obs = NoObs

Init == InitEnv(MatchEnv)

\* ------------------------------------------------------------ run: frame start
\* dt = self.clock.tick(self.cfg.fps) / 1000.0
Tick ==
    /\ pc = "tick"
    /\ \E t \in env.times : dt' = t
    /\ pc' = "events"
    /\ obs' = NoObs
    /\ UNCHANGED <<state, entities, steps, env, rally_hits, last_bounce, since_taken>>

\* ------------------------------------------------------------ restart
Restart ==
    /\ left_score' = 0
    /\ right_score' = 0
    /\ left' = [left EXCEPT !.y = Div(Px(height), 2) - Div(Px(left.h), 2)]
    /\ right' = [right EXCEPT !.y = Div(Px(height), 2) - Div(Px(right.h), 2)]
    /\ powerup' = None
    /\ powerup_timer' = 0
    /\ boost_timer' = 0
    /\ \E rnd \in random_ball_direction(env.angles) :
          ball' = reset_round(ball, FALSE, rnd)
    /\ state' = PLAYING
    /\ rally_hits' = 0
    /\ last_bounce' = "none"
    /\ since_taken' = -1

\* ------------------------------------------------------------ run: events
\* One more event of this frame's pygame.event.get() list is taken.
\* Mutant: the event loop goes on after a quit
NextEvent_AfterQuit == pc \in {"events", "quit"}

NextEvent == pc = "events"

\* event.type == pygame.QUIT
EventQuit ==
    /\ NextEvent
    /\ pc' = "quit"
    /\ dt' = 0
    /\ UNCHANGED <<state, entities, steps, env, rally_hits, last_bounce, since_taken, obs>>

\* Mutant: the pause key is honoured in GameOver too
KeyTransition_PauseAnywhere(s, key) ==
    IF s = MENU THEN (IF key = "K_RETURN" THEN PLAYING ELSE s)
    ELSE IF s = PAUSED THEN (IF key = "K_p" THEN PLAYING ELSE s)
    ELSE IF key = "K_p" THEN PAUSED ELSE s

\* The state a KEYDOWN of `key` leads to when it is not a restart
KeyTransition(s, key) ==
    IF s = MENU THEN (IF key = "K_RETURN" THEN PLAYING ELSE s)
    ELSE IF s = PLAYING THEN (IF key = "K_p" THEN PAUSED ELSE s)
    ELSE IF s = PAUSED THEN (IF key = "K_p" THEN PLAYING ELSE s)
    ELSE s

\* Mutant: R restarts from any state
KeyRestarts_AnyState(s, key) == key = "K_r"

\* Whether a KEYDOWN of `key` in state s calls restart()
KeyRestarts(s, key) == s = GAMEOVER /\ key = "K_r"

\* event.type == pygame.KEYDOWN with event.key == key
KeyDown(key) ==
    /\ NextEvent
    /\ UNCHANGED <<steps, env>>
    /\ IF key = "K_ESCAPE"
       THEN /\ pc' = "quit"
            /\ dt' = 0
            /\ UNCHANGED <<state, entities, rally_hits, last_bounce, since_taken, obs>>
       ELSE /\ pc' = pc
            /\ dt' = dt
            /\ IF KeyRestarts(state, key)
               THEN Restart /\ obs' = [obs EXCEPT !.restarted = TRUE]
               ELSE /\ state' = KeyTransition(state, key)
                    /\ UNCHANGED <<entities, rally_hits, last_bounce, since_taken, obs>>

KeyEscape == KeyDown("K_ESCAPE")
KeyReturn == KeyDown("K_RETURN")
KeyP == KeyDown("K_p")
KeyR == KeyDown("K_r")
KeyOther == KeyDown("K_w")

\* ------------------------------------------------------------ ai_move
\* Mutant: the AI paddle moves at the full paddle speed
ai_move_FullSpeed(ai, b, t) ==
    LET target == b.y
        desired == center_y(ai) + Div((target - center_y(ai)) * (100 - ai_reaction), 100)
        step == Div(ai.speed * t, 1000)
        y1 == IF desired > center_y(ai) + Px(ai_dead_zone) THEN ai.y + step
              ELSE IF desired < center_y(ai) - Px(ai_dead_zone) THEN ai.y - step
              ELSE ai.y
    IN  [ai EXCEPT !.y = clamp(y1, 0, Px(height - ai.h))]

ai_move(ai, b, t) ==
    LET target == b.y
        desired == center_y(ai) + Div((target - center_y(ai)) * (100 - ai_reaction), 100)
        step == Div(Div(ai.speed * ai_max_speed_factor, 100) * t, 1000)
        y1 == IF desired > center_y(ai) + Px(ai_dead_zone) THEN ai.y + step
              ELSE IF desired < center_y(ai) - Px(ai_dead_zone) THEN ai.y - step
              ELSE ai.y
    IN  [ai EXCEPT !.y = clamp(y1, 0, Px(height - ai.h))]

\* ------------------------------------------------------------ handle_input
\* Mutant: the clamp forgets the paddle height
MovePaddle_ClampArena(p, up, down, t) ==
    LET y1 == IF up THEN p.y - Div(p.speed * t, 1000) ELSE p.y
        y2 == IF down THEN y1 + Div(p.speed * t, 1000) ELSE y1
    IN  [p EXCEPT !.y = clamp(y2, 0, Px(height))]

\* A paddle moved by the two keys up/down, then clamped
MovePaddle(p, up, down, t) ==
    LET y1 == IF up THEN p.y - Div(p.speed * t, 1000) ELSE p.y
        y2 == IF down THEN y1 + Div(p.speed * t, 1000) ELSE y1
    IN  [p EXCEPT !.y = clamp(y2, 0, Px(height - p.h))]

handle_input_left(keys, t) == MovePaddle(left, "K_w" \in keys, "K_s" \in keys, t)

handle_input_right(keys, t) ==
    IF "K_SHIFT" \in keys
    THEN MovePaddle(right, "K_UP" \in keys, "K_DOWN" \in keys, t)
    ELSE ai_move(right, ball, t)

\* Mutant: the simulation runs in every state
SimulationEnabled_Always == TRUE

\* if self.state == GameState.PLAYING (run, after the event loop)
SimulationEnabled == state = PLAYING

HandleInput ==
    /\ pc = "events"
    /\ SimulationEnabled
    /\ steps < env.max_steps
    /\ \E keys \in env.keysets :
          /\ left' = handle_input_left(keys, dt)
          /\ right' = handle_input_right(keys, dt)
    /\ pc' = "update"
    /\ UNCHANGED <<state, ball, left_score, right_score, powerup, powerup_timer,
                   boost_timer, dt, steps, env, rally_hits, last_bounce, since_taken, obs>>

\* ------------------------------------------------------------ update_playing
\* The part of the game update_playing reads and writes, as one record
World ==
    [ball |-> ball, powerup |-> powerup, powerup_timer |-> powerup_timer,
     boost_timer |-> boost_timer, left_score |-> left_score,
     right_score |-> right_score, state |-> state]

spawn_powerup(pt) ==
    [x |-> Px(pt.x), y |-> Px(pt.y), r |-> powerup_radius, active |-> TRUE]

\* Mutant: a power-up is spawned even while one exists
SpawnDue_IgnorePresent(w) == w.powerup_timer >= powerup_spawn_every_sec

\* self.powerup is None and self.powerup_timer >= powerup_spawn_every_sec
SpawnDue(w) == w.powerup = None /\ w.powerup_timer >= powerup_spawn_every_sec

\* 1. the power-up timer
StepTimer(w, t, pt) ==
    LET w1 == [w EXCEPT !.powerup_timer = @ + t]
    IN  IF SpawnDue(w1)
        THEN [w1 EXCEPT !.powerup_timer = 0, !.powerup = <<spawn_powerup(pt)>>]
        ELSE w1

\* Mutant: the boost timer is not floored at 0
StepBoost_NoFloor(w, t) ==
    IF w.boost_timer > 0
    THEN [w EXCEPT !.boost_timer = w.boost_timer - t]
    ELSE w

\* 2. the boost timer
StepBoost(w, t) ==
    IF w.boost_timer > 0
    THEN LET b1 == w.boost_timer - t
         IN  [w EXCEPT !.boost_timer = IF b1 <= 0 THEN 0 ELSE b1]
    ELSE w

\* speed = ball.speed * (boost_multiplier if boost_timer > 0 else 1.0)
Boosted(w) == w.boost_timer > 0

EffectiveSpeed(w) ==
    IF Boosted(w) THEN Div(w.ball.speed * boost_multiplier, 100) ELSE w.ball.speed

\* v * speed * dt of one direction component, in 1/100 pixel
Displacement(v, speed, t) == Div(Div(v * speed, 1000) * t, 1000)

\* 3. the ball moves
StepMove(w, t) ==
    LET speed == EffectiveSpeed(w)
    IN  [w EXCEPT !.ball.x = @ + Displacement(w.ball.vx, speed, t),
                  !.ball.y = @ + Displacement(w.ball.vy, speed, t)]

HitsTop(b) == b.y - Px(b.r) <= 0

HitsBottom(b) == b.y + Px(b.r) >= Px(height)

\* Mutant: the top wall turns the ball without moving it back inside
ReflectTop_NoSnap(b) == IF HitsTop(b) THEN [b EXCEPT !.vy = -b.vy] ELSE b

ReflectTop(b) == IF HitsTop(b) THEN [b EXCEPT !.y = Px(b.r), !.vy = -b.vy] ELSE b

ReflectBottom(b) ==
    IF HitsBottom(b) THEN [b EXCEPT !.y = Px(height - b.r), !.vy = -b.vy] ELSE b

\* 4. the top and bottom walls
StepWall(w) == [w EXCEPT !.ball = ReflectBottom(ReflectTop(w.ball))]

\* b_rect: pygame.Rect(int(x - r), int(y - r), 2r, 2r)
BallRect(b) ==
    [left |-> Trunc(b.x - Px(b.r)), top |-> Trunc(b.y - Px(b.r)),
     w |-> b.r * 2, h |-> b.r * 2]

\* Mutant: the speed grows without the cap
SpeedAfterHit_Uncapped(speed) == Div(speed * 103, 100)

\* ball.speed after a paddle contact
SpeedAfterHit(speed) == Min(ball_speed_max, Div(speed * 103, 100))

\* Mutant: the bounce leaves the horizontal direction as it was
apply_paddle_bounce_KeepsDirection(b, paddle, is_left) ==
    LET vx == b.vx
        offset == clamp(Div((b.y - center_y(paddle)) * 1000, Div(Px(paddle.h), 2)),
                        -1000, 1000)
        vy == Div(offset * 95, 100)
        v0 == IF Length(vx, vy) = 0
              THEN [vx |-> IF is_left THEN 1000 ELSE -1000, vy |-> 100]
              ELSE [vx |-> vx, vy |-> vy]
        v == Normalize(v0.vx, v0.vy)
    IN  [b EXCEPT !.vx = v.vx, !.vy = v.vy, !.speed = SpeedAfterHit(b.speed)]

apply_paddle_bounce(b, paddle, is_left) ==
    LET vx == IF is_left THEN Abs(b.vx) ELSE -Abs(b.vx)
        offset == clamp(Div((b.y - center_y(paddle)) * 1000, Div(Px(paddle.h), 2)),
                        -1000, 1000)
        vy == Div(offset * 95, 100)
        v0 == IF Length(vx, vy) = 0
              THEN [vx |-> IF is_left THEN 1000 ELSE -1000, vy |-> 100]
              ELSE [vx |-> vx, vy |-> vy]
        v == Normalize(v0.vx, v0.vy)
    IN  [b EXCEPT !.vx = v.vx, !.vy = v.vy, !.speed = SpeedAfterHit(b.speed)]

\* b_rect.colliderect(self.left.rect()) and self.ball.vx < 0
LeftPaddleHit(b_rect, b, l) == colliderect(b_rect, PaddleRect(l)) /\ b.vx < 0

\* Mutant: the right paddle also stops a ball whose box is already behind it
RightPaddleHit_Swept(b_rect, b, r) ==
    /\ b_rect.left + b_rect.w > PaddleRect(r).left
    /\ b_rect.top < PaddleRect(r).top + r.h
    /\ b_rect.top + b_rect.h > PaddleRect(r).top
    /\ b.vx > 0

\* b_rect.colliderect(self.right.rect()) and self.ball.vx > 0
RightPaddleHit(b_rect, b, r) == colliderect(b_rect, PaddleRect(r)) /\ b.vx > 0

\* Mutant: the left paddle turns the ball without putting it on its face
BounceLeft_NoSnap(b_rect, b, l) ==
    IF LeftPaddleHit(b_rect, b, l)
    THEN apply_paddle_bounce(b, l, TRUE)
    ELSE b

BounceLeft(b_rect, b, l) ==
    IF LeftPaddleHit(b_rect, b, l)
    THEN apply_paddle_bounce([b EXCEPT !.x = l.x + Px(l.w) + Px(b.r)], l, TRUE)
    ELSE b

BounceRight(b_rect, b, r) ==
    IF RightPaddleHit(b_rect, b, r)
    THEN apply_paddle_bounce([b EXCEPT !.x = r.x - Px(b.r)], r, FALSE)
    ELSE b

\* 5. the paddles: b_rect is taken once, before either bounce
StepPaddles(w, l, r) ==
    LET b_rect == BallRect(w.ball)
    IN  [w EXCEPT !.ball = BounceRight(b_rect, BounceLeft(b_rect, w.ball, l), r)]

\* Mutant: the reach forgets the power-up radius
Touches_BallRadiusOnly(b, pu) ==
    LET dx == Abs(b.x - pu.x)
        dy == Abs(b.y - pu.y)
        reach == Px(b.r)
    IN  /\ dx <= reach
        /\ dy <= reach
        /\ dx * dx + dy * dy <= reach * reach

\* (ball.pos() - Vector2(powerup.x, powerup.y)).length() <= ball.r + powerup.r
Touches(b, pu) ==
    LET dx == Abs(b.x - pu.x)
        dy == Abs(b.y - pu.y)
        reach == Px(b.r + pu.r)
    IN  /\ dx <= reach
        /\ dy <= reach
        /\ dx * dx + dy * dy <= reach * reach

\* if self.powerup and self.powerup.active: if <distance test>
PowerupContact(w) ==
    /\ w.powerup # None
    /\ w.powerup[1].active
    /\ Touches(w.ball, w.powerup[1])

\* Mutant: taking the power-up restarts the spawn timer
StepContact_ResetsTimer(w) ==
    IF PowerupContact(w)
    THEN [w EXCEPT !.powerup = None, !.boost_timer = boost_duration_sec,
                   !.powerup_timer = 0]
    ELSE w

\* 6. the power-up
StepContact(w) ==
    IF PowerupContact(w)
    THEN [w EXCEPT !.powerup = None, !.boost_timer = boost_duration_sec]
    ELSE w

\* self.ball.x + self.ball.r < 0
GoalLeft(b) == b.x + Px(b.r) < 0

\* self.ball.x - self.ball.r > self.cfg.width
GoalRight(b) == b.x - Px(b.r) > Px(width)

\* Mutant: after a goal on the left the ball is served to the right
ScoreRight_ServeRight(w, rnd) ==
    [w EXCEPT !.right_score = @ + 1, !.ball = reset_round(w.ball, FALSE, rnd),
              !.boost_timer = 0]

ScoreRight(w, rnd) ==
    [w EXCEPT !.right_score = @ + 1, !.ball = reset_round(w.ball, TRUE, rnd),
              !.boost_timer = 0]

\* Mutant: a goal on the right counts twice
ScoreLeft_Twice(w, rnd) ==
    [w EXCEPT !.left_score = @ + 2, !.ball = reset_round(w.ball, FALSE, rnd),
              !.boost_timer = 0]

ScoreLeft(w, rnd) ==
    [w EXCEPT !.left_score = @ + 1, !.ball = reset_round(w.ball, FALSE, rnd),
              !.boost_timer = 0]

\* 7. goals: the second test reads the ball the first may have re-served
StepGoal(w, rnd) ==
    LET w1 == IF GoalLeft(w.ball) THEN ScoreRight(w, rnd) ELSE w
    IN  IF GoalRight(w1.ball) THEN ScoreLeft(w1, rnd) ELSE w1

\* Mutant: the match ends only above score_to_win
MatchWon_Strict(w) == w.left_score > score_to_win \/ w.right_score > score_to_win

\* left_score >= score_to_win or right_score >= score_to_win
MatchWon(w) == w.left_score >= score_to_win \/ w.right_score >= score_to_win

\* Mutant: a won match is not ended
StepWin_Never(w) == w

\* 8. the end of the match
StepWin(w) == IF MatchWon(w) THEN [w EXCEPT !.state = GAMEOVER] ELSE w

\* The ball at goal detection: it depends on neither random draw of the step
\* (a power-up changes the boost timer only after the ball has moved)
BallAtGoal(w, t, l, r) ==
    StepPaddles(StepWall(StepMove(StepBoost([w EXCEPT !.powerup_timer = @ + t], t), t)), l, r).ball

\* spawn_powerup() draws a position only in a step that spawns
SpawnDraws(w, t) ==
    IF SpawnDue([w EXCEPT !.powerup_timer = @ + t]) THEN SpawnPoints
    ELSE {[x |-> width \div 2, y |-> height \div 2]}

\* reset_round() draws a direction only in a step with a goal
ServeDraws(w, t, l, r, angles) ==
    IF GoalLeft(BallAtGoal(w, t, l, r)) \/ GoalRight(BallAtGoal(w, t, l, r))
    THEN random_ball_direction(angles)
    ELSE {[dir_x |-> 1, angle |-> [cos |-> 1000, sin |-> 0]]}

UpdatePlaying ==
    /\ pc = "update"
    /\ \E pt \in SpawnDraws(World, dt),
          rnd \in ServeDraws(World, dt, left, right, env.angles) :
          LET w1 == StepTimer(World, dt, pt)
              w2 == StepBoost(w1, dt)
              w3 == StepMove(w2, dt)
              w4 == StepWall(w3)
              w5 == StepPaddles(w4, left, right)
              w6 == StepContact(w5)
              w7 == StepGoal(w6, rnd)
              w8 == StepWin(w7)
              b_rect == BallRect(w4.ball)
              hitL == LeftPaddleHit(b_rect, w4.ball, left)
              hitR == RightPaddleHit(b_rect, BounceLeft(b_rect, w4.ball, left), right)
              served == w7.left_score # w6.left_score \/ w7.right_score # w6.right_score
          IN  /\ ball' = w8.ball
              /\ powerup' = w8.powerup
              /\ powerup_timer' = w8.powerup_timer
              /\ boost_timer' = w8.boost_timer
              /\ left_score' = w8.left_score
              /\ right_score' = w8.right_score
              /\ state' = w8.state
              /\ rally_hits' = IF served THEN 0
                               ELSE rally_hits + (IF hitL THEN 1 ELSE 0)
                                               + (IF hitR THEN 1 ELSE 0)
              /\ last_bounce' = IF served THEN "none"
                                ELSE IF hitR THEN "right"
                                ELSE IF hitL THEN "left"
                                ELSE last_bounce
              /\ since_taken' = IF PowerupContact(w5) THEN 0
                                ELSE IF since_taken < 0 THEN since_taken
                                ELSE since_taken + dt
              /\ obs' = [stepped |-> TRUE, restarted |-> obs.restarted,
                         spawned |-> w1.powerup # World.powerup,
                         boosted |-> Boosted(w2),
                         bounce_left |-> hitL, bounce_right |-> hitR,
                         wall_top |-> HitsTop(w3.ball),
                         wall_bottom |-> HitsBottom(ReflectTop(w3.ball)),
                         contact |-> PowerupContact(w5),
                         goal_left |-> w7.right_score # w6.right_score,
                         goal_right |-> w7.left_score # w6.left_score,
                         at_start |-> World.ball,
                         at_move |-> w3.ball, at_wall |-> w4.ball,
                         at_paddles |-> w5.ball, at_contact |-> w5.ball,
                         at_goal |-> w6.ball,
                         powerup_at_contact |-> w5.powerup,
                         boost_at_move |-> w2.boost_timer,
                         boost_at_contact |-> w5.boost_timer,
                         powerup_at_goal |-> w6.powerup,
                         boost_at_goal |-> w6.boost_timer]
    /\ pc' = "tick"
    /\ dt' = 0
    /\ steps' = steps + 1
    /\ UNCHANGED <<left, right, env>>

\* ------------------------------------------------------------ run: frame end
\* The state is not Playing: neither handle_input nor update_playing is
\* called. The frame ends with draw(), which reads the game and writes none
\* of it.
SkipSimulation ==
    /\ pc = "events"
    /\ ~SimulationEnabled
    /\ pc' = "tick"
    /\ dt' = 0
    /\ UNCHANGED <<state, entities, steps, env, rally_hits, last_bounce, since_taken, obs>>

Next ==
    \/ Tick
    \/ EventQuit
    \/ KeyEscape
    \/ KeyReturn
    \/ KeyP
    \/ KeyR
    \/ KeyOther
    \/ HandleInput
    \/ UpdatePlaying
    \/ SkipSimulation

Spec == Init /\ [][Next]_vars

\* Short runs with every combination of held keys, in regular and stalled
\* frames.
InitInput == InitEnv(InputEnv)

SpecInput == InitInput /\ [][Next]_vars

\* Long rallies in regular frames.
InitRally == InitEnv(RallyEnv)

SpecRally == InitRally /\ [][Next]_vars

\* Whole matches and long rallies together.
InitPlay == InitEnv(MatchEnv) \/ InitEnv(RallyEnv)

SpecPlay == InitPlay /\ [][Next]_vars

\* Short runs with a hand-held right paddle, reaching the walls.
InitWall == InitEnv(WallEnv)

SpecWall == InitWall /\ [][Next]_vars

\* Long matches in stalled frames.
InitScore == InitEnv(ScoreEnv)

SpecScore == InitScore /\ [][Next]_vars

\* ------------------------------------------------------------ ai_move on its own
\* ai_move called frame after frame with the same dt on a ball whose height
\* does not change, from every combination of these starts, in pixels: the
\* ball at the two heights the walls allow at most, and 100 and 273; the top
\* of the paddle at both clamp bounds, at the centre (215, paddle centre
\* 270) and at 245 (paddle centre 300).
AiBallHeights == {ball_radius, 100, 273, height - ball_radius}

AiPaddleTops == {0, 215, 245, height - paddle_h}

AiFrames == RegularFrame \cup {1110}

InitAI ==
    /\ env = [times |-> AiFrames, keysets |-> {{}}, angles |-> {[cos |-> 1000, sin |-> 0]},
              max_steps |-> 0]
    /\ state = PLAYING
    /\ left = NewPaddle(paddle_inset)
    /\ \E top \in AiPaddleTops :
          right = [NewPaddle(width - paddle_inset - paddle_w) EXCEPT !.y = Px(top)]
    /\ \E y \in AiBallHeights : ball = [NewBall EXCEPT !.y = Px(y)]
    /\ left_score = 0
    /\ right_score = 0
    /\ powerup = None
    /\ powerup_timer = 0
    /\ boost_timer = 0
    /\ \E t \in AiFrames : dt = t
    /\ pc = "ai_move"
    /\ steps = 0
    /\ rally_hits = 0
    /\ last_bounce = "none"
    /\ since_taken = -1
    /\ obs = NoObs

\* ai_move(self.cfg, self.right, self.ball, dt)
AiMove ==
    /\ pc = "ai_move"
    /\ right' = ai_move(right, ball, dt)
    /\ UNCHANGED <<state, left, ball, left_score, right_score, powerup, powerup_timer,
                   boost_timer, dt, pc, steps, env, rally_hits, last_bounce, since_taken, obs>>

NextAI == AiMove

\* The loop calls ai_move in every frame of Playing without SHIFT held.
SpecAI == InitAI /\ [][NextAI]_vars /\ WF_vars(AiMove)

\* ============================================================ claims

\* The edges of the GameState machine
StateEdges ==
    {<<MENU, PLAYING>>, <<PLAYING, PAUSED>>, <<PAUSED, PLAYING>>,
     <<PLAYING, GAMEOVER>>, <<GAMEOVER, PLAYING>>}

\* A step of the event loop that changes nothing but the position in run()
\* is a step of every key that is ignored in the current state, so a step
\* that changes the GameState is a step of exactly one handler.
StateChangeCause ==
    \/ state = MENU /\ state' = PLAYING /\ KeyReturn
    \/ state = PLAYING /\ state' = PAUSED /\ KeyP
    \/ state = PAUSED /\ state' = PLAYING /\ KeyP
    \/ state = PLAYING /\ state' = GAMEOVER /\ UpdatePlaying
    \/ state = GAMEOVER /\ state' = PLAYING /\ KeyR

\* C1: the GameState starts as Menu and changes only along Menu -> Playing
\* (ENTER), Playing -> Paused (P), Paused -> Playing (P), Playing -> GameOver
\* (a win, in update_playing) and GameOver -> Playing (R, restart); no other
\* transition ever occurs.
C1_StateMachine ==
    /\ state = MENU
    /\ [][state' # state => <<state, state'>> \in StateEdges /\ StateChangeCause]_vars

\* C1 witness: the match has been won and restarted, so every edge but the
\* pause pair has been taken; the pause pair is taken in C2's witness.
C1_Witness ==
    /\ obs.restarted
    /\ state = PLAYING
    /\ pc = "events"

\* C2: handle_input and update_playing run only when the state is Playing
\* once the frame's events are drained, update_playing only right after
\* handle_input and once; a step that changes a paddle, the ball, a score,
\* the power-up or a timer is one of those two or a restart, so a frame that
\* ends its events in Menu, Paused or GameOver leaves all of them unchanged.
C2_FrozenUnlessPlaying ==
    [][/\ (HandleInput => state = PLAYING /\ pc' = "update")
       /\ (pc' = "update" => HandleInput)
       /\ (pc = "update" => UpdatePlaying /\ state = PLAYING /\ pc' = "tick")
       /\ (pc = "events" /\ pc' = "tick" /\ state # PLAYING => UNCHANGED entities)
       /\ (entities' # entities =>
             \/ HandleInput
             \/ UpdatePlaying
             \/ state = GAMEOVER /\ KeyR)]_vars

\* C2 witness: a frame has ended in Paused without a simulation step, after
\* the ball has been moved by earlier steps.
C2_Witness ==
    /\ state = PAUSED
    /\ pc = "tick"
    /\ steps > 0
    /\ ~obs.stepped
    /\ ball.x # Div(Px(width), 2)

\* C3: whenever a score has reached score_to_win the state is GameOver (the
\* step that scores the last point sets it), and while the state is GameOver
\* no score changes except by restart.
C3_WinEndsScoring ==
    /\ [](left_score >= score_to_win \/ right_score >= score_to_win
            => state = GAMEOVER)
    /\ [][state = GAMEOVER /\ ~KeyR
            => left_score' = left_score /\ right_score' = right_score]_vars

\* C3 witness: the step that brought the left score to score_to_win has ended
\* in GameOver.
C3_Witness ==
    /\ pc = "tick"
    /\ obs.goal_right
    /\ left_score = score_to_win
    /\ right_score < score_to_win
    /\ state = GAMEOVER

\* The ball as reset_round leaves it, served to the left or to the right
ServedLeft(b) ==
    /\ b.x = Div(Px(width), 2)
    /\ b.y = Div(Px(height), 2)
    /\ b.speed = ball_speed
    /\ b.vx < 0

ServedRight(b) ==
    /\ b.x = Div(Px(width), 2)
    /\ b.y = Div(Px(height), 2)
    /\ b.speed = ball_speed
    /\ b.vx > 0

\* C4: in a simulation step where the ball at goal detection is fully past
\* the left edge, the right score grows by exactly 1, the left score is
\* unchanged, the ball is re-served from the centre at the base speed toward
\* the left, and the boost timer ends at 0; symmetrically past the right edge.
C4_Goal ==
    [][pc = "update" =>
         /\ (obs'.at_goal.x + Px(obs'.at_goal.r) < 0 =>
               /\ right_score' = right_score + 1
               /\ left_score' = left_score
               /\ ServedLeft(ball')
               /\ boost_timer' = 0)
         /\ (obs'.at_goal.x - Px(obs'.at_goal.r) > Px(width) =>
               /\ left_score' = left_score + 1
               /\ right_score' = right_score
               /\ ServedRight(ball')
               /\ boost_timer' = 0)]_vars

\* C4 witness: a step has just ended in which the ball was past the left edge
\* at goal detection.
C4_Witness ==
    /\ pc = "tick"
    /\ obs.stepped
    /\ obs.at_goal.x + Px(obs.at_goal.r) < 0
    /\ right_score > 0

\* The game as restart() leaves it
Restarted ==
    /\ left_score = 0
    /\ right_score = 0
    /\ left.y = Div(Px(height), 2) - Div(Px(paddle_h), 2)
    /\ right.y = Div(Px(height), 2) - Div(Px(paddle_h), 2)
    /\ powerup = None
    /\ powerup_timer = 0
    /\ boost_timer = 0
    /\ ServedRight(ball)
    /\ state = PLAYING

\* C5: restart happens only on key R in GameOver and leaves both scores 0,
\* both paddles centred, no power-up, both timers 0, the ball served to the
\* right from the centre at base speed and the state Playing; R in Menu,
\* Playing or Paused changes nothing.
C5_Restart ==
    [][/\ (KeyR /\ state = GAMEOVER => Restarted')
       /\ (KeyR /\ state # GAMEOVER => UNCHANGED <<state, entities>>)
       /\ (left_score' < left_score \/ right_score' < right_score
             => KeyR /\ state = GAMEOVER)]_vars

\* C5 witness: restart has just been performed after a finished match in
\* which a paddle had left the centre and a power-up had been spawned.
C5_Witness ==
    /\ obs.restarted
    /\ pc = "events"
    /\ Restarted
    /\ steps >= score_to_win

\* C6: in every reachable state both paddles satisfy
\* 0 <= y <= arena height - paddle height.
C6_PaddlesInArena ==
    /\ 0 <= left.y /\ left.y <= Px(height - left.h)
    /\ 0 <= right.y /\ right.y <= Px(height - right.h)

\* C6 witness: input has driven the left paddle to the top bound and the
\* right paddle, under manual control, to the bottom bound.
C6_Witness ==
    /\ pc = "update"
    /\ left.y = 0
    /\ right.y = Px(height - right.h)

\* ball_speed * 1.03^n capped at ball_speed_max, each product rounded as the
\* model's speeds are
RECURSIVE ExpectedSpeed(_)
ExpectedSpeed(n) ==
    IF n = 0 THEN ball_speed
    ELSE LET grown == (ExpectedSpeed(n - 1) * 103) \div 100
         IN  IF grown > ball_speed_max THEN ball_speed_max ELSE grown

\* A simulation step that applies a paddle bounce / that serves after a goal
ContactStep == pc = "update" /\ (obs'.bounce_left \/ obs'.bounce_right)

GoalStep == pc = "update" /\ (obs'.goal_left \/ obs'.goal_right)

RestartStep == state = GAMEOVER /\ KeyR

\* C7: ball_speed <= ball.speed <= ball_speed_max always; ball.speed changes
\* only in a step with a paddle contact or a serve (goal or restart), after N
\* consecutive contacts since the last serve it is
\* min(ball_speed_max, ball_speed * 1.03^N), and it decreases only at a serve.
C7_BallSpeed ==
    /\ [](/\ ball_speed <= ball.speed
          /\ ball.speed <= ball_speed_max
          /\ ball.speed = ExpectedSpeed(rally_hits))
    /\ [][/\ (ball.speed' # ball.speed => ContactStep \/ GoalStep \/ RestartStep)
          /\ (ball.speed' < ball.speed => GoalStep \/ RestartStep)
          /\ (ContactStep /\ ~GoalStep =>
                ball.speed' = IF (ball.speed * 103) \div 100 > ball_speed_max
                              THEN ball_speed_max
                              ELSE (ball.speed * 103) \div 100)]_vars

\* C7 witness: a rally long enough for the cap: the speed has reached
\* ball_speed_max, where the uncapped product would exceed it, and a further
\* contact has left it there.
C7_Witness ==
    /\ rally_hits > 30
    /\ ball.speed = ball_speed_max
    /\ obs.bounce_left

\* A power-up inside the spawn margins
InsideMargins(pu) ==
    /\ Px(margin) <= pu.x /\ pu.x <= Px(width - margin)
    /\ Px(margin_y) <= pu.y /\ pu.y <= Px(height - margin_y)

\* C8: at most one power-up exists; one is spawned only in a step that starts
\* with no power-up and whose accumulated spawn timer is at least
\* powerup_spawn_every_sec, the spawn leaves the timer at 0, and every
\* existing power-up is active and inside the spawn margins.
C8_PowerupSpawn ==
    /\ [](/\ Len(powerup) <= 1
          /\ (powerup # None => powerup[1].active /\ InsideMargins(powerup[1])))
    /\ [][/\ (powerup' # None /\ powerup' # powerup => pc = "update" /\ obs'.spawned)
          /\ (pc = "update" /\ obs'.spawned =>
                /\ powerup = None
                /\ powerup_timer + dt >= powerup_spawn_every_sec
                /\ powerup_timer' = 0)]_vars

\* C8 witness: a step has just spawned a power-up at the corner of the
\* margins.
C8_Witness ==
    /\ pc = "tick"
    /\ obs.spawned
    /\ powerup # None
    /\ powerup[1].x = Px(margin)
    /\ powerup[1].y = Px(margin_y)
    /\ powerup_timer = 0

\* The ball centre is within the sum of the radii of the power-up centre
WithinReach(b, pu) ==
    LET dx == b.x - pu.x
        dy == b.y - pu.y
        reach == Px(b.r) + Px(pu.r)
    IN  IF dx > reach \/ dx < -reach \/ dy > reach \/ dy < -reach THEN FALSE
        ELSE dx * dx + dy * dy <= reach * reach

\* An active power-up exists at the contact check and the ball reaches it
ReachedAtContact(o) ==
    /\ o.powerup_at_contact # None
    /\ o.powerup_at_contact[1].active
    /\ WithinReach(o.at_contact, o.powerup_at_contact[1])

\* C9: in a step where, after motion and collisions, an active power-up
\* exists within ball.r + powerup.r of the ball centre, the step ends with no
\* power-up and the boost timer at exactly boost_duration_sec; otherwise the
\* contact check changes neither the power-up nor the boost timer.
C9_PowerupContact ==
    [][pc = "update" =>
         IF ReachedAtContact(obs')
         THEN powerup' = None /\ boost_timer' = boost_duration_sec
         ELSE /\ obs'.powerup_at_goal = obs'.powerup_at_contact
              /\ obs'.boost_at_goal = obs'.boost_at_contact
              /\ powerup' = obs'.powerup_at_contact]_vars

\* C9 witness: a step has just taken a power-up whose centre was more than
\* the ball radius away.
C9_Witness ==
    /\ pc = "tick"
    /\ obs.stepped
    /\ ReachedAtContact(obs)
    /\ Abs(obs.at_contact.x - obs.powerup_at_contact[1].x) > Px(ball_radius)
    /\ powerup = None
    /\ boost_timer = boost_duration_sec

\* C10 as stated: taking a power-up restarts the spawn timer from 0, and no
\* power-up is spawned less than powerup_spawn_every_sec of Playing time
\* after one was taken.
C10_TimerRestartsWhenTaken ==
    [][pc = "update" =>
         /\ (obs'.contact => powerup_timer' = 0)
         /\ (obs'.spawned /\ since_taken >= 0 =>
               since_taken + dt >= powerup_spawn_every_sec)]_vars

\* C10 amended: the spawn timer is the Playing time since the last spawn, or
\* since the start or restart if there was none: a simulation step adds dt or,
\* when it spawns, leaves 0, whether or not a power-up is taken in it; restart
\* leaves 0; no other step changes it.
C10_TimerSinceSpawn ==
    [][/\ (pc = "update" =>
             powerup_timer' = IF obs'.spawned THEN 0 ELSE powerup_timer + dt)
       /\ (RestartStep => powerup_timer' = 0)
       /\ (pc # "update" /\ ~RestartStep => powerup_timer' = powerup_timer)]_vars

\* C10 witness: a power-up has just been spawned less than
\* powerup_spawn_every_sec of Playing time after the previous one was taken.
C10_Witness ==
    /\ pc = "tick"
    /\ obs.spawned
    /\ since_taken >= 0
    /\ since_taken < powerup_spawn_every_sec
    /\ powerup_timer = 0

\* C11: in every reachable state r <= ball.y <= arena height - r; the wall
\* test of a simulation step changes the ball only when it is at a wall, and
\* then puts it on that wall's boundary and inverts the vertical direction
\* component, leaving x, the horizontal component and ball.speed as they were;
\* the inverted component points away from the wall that was hit (down after
\* the top wall, up after the bottom wall), and one step hits at most one wall.
C11_WallReflection ==
    /\ [](Px(ball.r) <= ball.y /\ ball.y <= Px(height - ball.r))
    /\ [][pc = "update" =>
            LET a == obs'.at_move
                b == obs'.at_wall
            IN  /\ b.x = a.x /\ b.vx = a.vx /\ b.speed = a.speed
                /\ Px(b.r) <= b.y /\ b.y <= Px(height - b.r)
                /\ ~(obs'.wall_top /\ obs'.wall_bottom)
                /\ (obs'.wall_top <=> a.y - Px(a.r) <= 0)
                /\ (obs'.wall_bottom <=> a.y + Px(a.r) >= Px(height))
                /\ (obs'.wall_top => b.y = Px(b.r) /\ b.vy = -a.vy /\ b.vy > 0)
                /\ (obs'.wall_bottom =>
                      b.y = Px(height - b.r) /\ b.vy = -a.vy /\ b.vy < 0)
                /\ (~obs'.wall_top /\ ~obs'.wall_bottom => b = a)]_vars

\* C11 witness: a step has just carried the ball above the top wall and put
\* it back on the boundary, and the ball is still in play.
C11_Witness ==
    /\ pc = "tick"
    /\ obs.wall_top
    /\ obs.at_move.y < 0
    /\ ~obs.goal_left /\ ~obs.goal_right
    /\ ball.y = Px(ball.r)
    /\ ball.vy > 0

\* C12: a quit event (window close or ESC), taken in the event loop in any
\* GameState, ends run() at once and changes nothing of the game; run() is
\* left only by such an event; and once it is left nothing happens any more:
\* no further event is handled, no simulation step runs, and neither the
\* GameState nor a score changes.
C12_QuitEndsLoop ==
    /\ [][(EventQuit \/ KeyEscape) => pc' = "quit" /\ UNCHANGED <<state, entities>>]_vars
    /\ [][pc' = "quit" => pc = "events" /\ (EventQuit \/ KeyEscape)]_vars
    /\ [][pc # "quit"]_vars
    /\ [](pc = "events" => ENABLED EventQuit /\ ENABLED KeyEscape)

\* C12 witness: run() has been left by a quit event received in GameOver,
\* after a whole match.
C12_Witness ==
    /\ pc = "quit"
    /\ state = GAMEOVER
    /\ left_score + right_score >= score_to_win

\* The boost timer of a step once it has been lowered by dt and floored at 0
BoostLeft(timer, t) ==
    IF timer <= 0 THEN timer
    ELSE IF timer - t <= 0 THEN 0 ELSE timer - t

\* C13: in every reachable state 0 <= boost_timer <= boost_duration_sec; a
\* simulation step with boost_timer > 0 lowers it by dt, floored at 0, before
\* the ball moves; the ball is displaced by direction * speed * dt where the
\* speed is ball.speed * boost_multiplier exactly when the lowered timer is
\* still > 0, and plain ball.speed otherwise.
C13_BoostTimer ==
    /\ [](0 <= boost_timer /\ boost_timer <= boost_duration_sec)
    /\ [][pc = "update" =>
            LET timer == BoostLeft(boost_timer, dt)
                speed == IF timer > 0 THEN (ball.speed * boost_multiplier) \div 100
                         ELSE ball.speed
            IN  /\ obs'.boost_at_move = timer
                /\ (obs'.boosted <=> timer > 0)
                /\ obs'.at_move.x = ball.x + Displacement(ball.vx, speed, dt)
                /\ obs'.at_move.y = ball.y + Displacement(ball.vy, speed, dt)]_vars

\* C13 witness: a step has just lowered a running boost timer and moved the
\* ball at the boosted speed, with part of the boost time left over.
C13_Witness ==
    /\ pc = "tick"
    /\ obs.stepped
    /\ obs.boosted
    /\ 0 < obs.boost_at_move /\ obs.boost_at_move < boost_duration_sec

\* C14: the paddle test of a simulation step bounces the ball off the left
\* paddle exactly when the ball's bounding box, taken before the test,
\* overlaps that paddle's rectangle and the horizontal direction is negative
\* (right paddle: positive). After a bounce the ball's x is on the paddle face
\* (left: paddle.x + paddle.w + r, right: paddle.x - r), the horizontal
\* direction points away from that paddle, the bounding box no longer
\* overlaps it, and the step ends with the ball as the bounce left it. A step
\* bounces the ball off at most one paddle, and without a bounce the test
\* leaves the ball alone.
C14_PaddleBounce ==
    [][pc = "update" =>
         LET a == obs'.at_wall
             b == obs'.at_paddles
             box == BallRect(a)
         IN  /\ (obs'.bounce_left <=> colliderect(box, PaddleRect(left)) /\ a.vx < 0)
             /\ (obs'.bounce_right <=> colliderect(box, PaddleRect(right)) /\ a.vx > 0)
             /\ (obs'.bounce_left =>
                   /\ b.x = left.x + Px(left.w) + Px(b.r)
                   /\ b.vx > 0
                   /\ ~colliderect(BallRect(b), PaddleRect(left))
                   /\ ball' = b)
             /\ (obs'.bounce_right =>
                   /\ b.x = right.x - Px(b.r)
                   /\ b.vx < 0
                   /\ ~colliderect(BallRect(b), PaddleRect(right))
                   /\ ball' = b)
             /\ ~(obs'.bounce_left /\ obs'.bounce_right)
             /\ (~obs'.bounce_left /\ ~obs'.bounce_right => b = a)]_vars

\* C14 witness: a step has just bounced the ball off the left paddle, which it
\* had reached with its box overlapping the paddle, after an earlier bounce
\* off the right paddle away from that paddle's centre.
C14_Witness ==
    /\ pc = "tick"
    /\ obs.bounce_left
    /\ obs.at_wall.vy # 0
    /\ colliderect(BallRect(obs.at_wall), PaddleRect(left))
    /\ ball.x = left.x + Px(left.w) + Px(ball.r)
    /\ ball.vx > 0

\* What is left of the ball's vertical distance from the paddle centre after
\* the AI's reaction factor: (ball.y - center_y) * (1 - ai_reaction)
AiPull(ai, b) == Div((b.y - (ai.y + Px(ai.h) \div 2)) * (100 - ai_reaction), 100)

\* speed * ai_max_speed_factor * dt, in 1/100 pixel
AiStep(ai, t) == (((ai.speed * ai_max_speed_factor) \div 100) * t) \div 1000

\* C15: a call of ai_move changes nothing but the paddle's y; when
\* (ball.y - center_y) * (1 - ai_reaction) is above 2 px the new y is
\* y + speed * ai_max_speed_factor * dt clamped to [0, height - h] and not less
\* than y (downward, toward the ball); when it is below -2 px the new y is
\* y - speed * ai_max_speed_factor * dt clamped and not more than y (upward);
\* otherwise y is unchanged; the new y is always within the clamp bounds.
C15_AiMove ==
    [][pc = "ai_move" =>
         LET pull == AiPull(right, ball)
             step == AiStep(right, dt)
             hi == Px(height - right.h)
         IN  /\ right' = [right EXCEPT !.y = right'.y]
             /\ 0 <= right'.y /\ right'.y <= hi
             /\ (pull > Px(ai_dead_zone) =>
                   /\ right'.y = (IF right.y + step > hi THEN hi ELSE right.y + step)
                   /\ right'.y >= right.y)
             /\ (pull < -Px(ai_dead_zone) =>
                   /\ right'.y = (IF right.y - step < 0 THEN 0 ELSE right.y - step)
                   /\ right'.y <= right.y)
             /\ (pull <= Px(ai_dead_zone) /\ pull >= -Px(ai_dead_zone) =>
                   right'.y = right.y)]_vars

\* C15 witness: the ball at y = 100 and the paddle centre at 300 before the
\* call, in a regular frame: the call has moved the paddle up by exactly
\* speed * ai_max_speed_factor * dt.
C15_Witness ==
    /\ pc = "ai_move"
    /\ dt \in RegularFrame
    /\ ball.y = Px(100)
    /\ right.y = Px(245) - AiStep(right, dt)

\* The paddle centre can be level with the ball without the clamp acting
CentreCanReach(b) ==
    /\ b.y >= Px(paddle_h) \div 2
    /\ b.y <= Px(height) - Px(paddle_h) \div 2

\* A call of ai_move now would leave the paddle where it is
AiHolds == ai_move(right, ball, dt).y = right.y

\* C16 as stated: with the ball's height fixed where the paddle centre can
\* reach it, ai_move called in every regular frame eventually leaves the
\* paddle stationary for ever.
C16_NoJitter ==
    (pc = "ai_move" /\ dt \in RegularFrame /\ CentreCanReach(ball)) => <>[]AiHolds

\* The paddle's rectangle spans part of the height of the ball's box
CoversHeight(p, b) ==
    /\ BallRect(b).top < PaddleRect(p).top + p.h
    /\ BallRect(b).top + BallRect(b).h > PaddleRect(p).top

\* A step that takes the ball, moving right, from in front of the right paddle
\* to behind it while the paddle spans the ball's height at both ends of the
\* step; and the same for the left paddle
PassedRight(o, p) ==
    /\ o.at_start.vx > 0
    /\ BallRect(o.at_start).left + BallRect(o.at_start).w <= PaddleRect(p).left
    /\ CoversHeight(p, o.at_start)
    /\ CoversHeight(p, o.at_wall)
    /\ BallRect(o.at_wall).left >= PaddleRect(p).left + p.w

PassedLeft(o, p) ==
    /\ o.at_start.vx < 0
    /\ BallRect(o.at_start).left >= PaddleRect(p).left + p.w
    /\ CoversHeight(p, o.at_start)
    /\ CoversHeight(p, o.at_wall)
    /\ BallRect(o.at_wall).left + BallRect(o.at_wall).w <= PaddleRect(p).left

\* C17: the ball is tested against the paddles only where the whole dt of the
\* frame has carried it: a step that takes the ball from in front of a paddle
\* that spans its height to behind that paddle applies no paddle bounce, and
\* when it has carried the ball past the arena edge the goal is scored in the
\* same step.
C17_Tunnelling ==
    [][pc = "update" =>
         /\ (PassedRight(obs', right) =>
               /\ ~obs'.bounce_right /\ ~obs'.bounce_left
               /\ obs'.at_paddles = obs'.at_wall
               /\ (obs'.at_wall.x - Px(obs'.at_wall.r) > Px(width) =>
                     left_score' = left_score + 1))
         /\ (PassedLeft(obs', left) =>
               /\ ~obs'.bounce_right /\ ~obs'.bounce_left
               /\ obs'.at_paddles = obs'.at_wall
               /\ (obs'.at_wall.x + Px(obs'.at_wall.r) < 0 =>
                     right_score' = right_score + 1))]_vars

\* C17 witness: a step of a stalled frame has just carried the ball from the
\* centre line, in front of the right paddle and level with it, past that
\* paddle and past the right edge, and a goal was scored without a bounce.
C17_Witness ==
    /\ pc = "tick"
    /\ obs.stepped
    /\ obs.at_start.x = Div(Px(width), 2)
    /\ PassedRight(obs, right)
    /\ ~obs.bounce_right
    /\ obs.goal_right
    /\ left_score > 0

\* A step of the event loop that handles a key or a quit event
InputEventStep == EventQuit \/ KeyEscape \/ KeyReturn \/ KeyP \/ KeyR \/ KeyOther

\* C18 as stated: every change of GameState is a step that handles an input
\* event, so a frame without key or quit events ends in the GameState it
\* started in.
C18_OnlyInputChangesState ==
    [][state' # state => InputEventStep]_vars

\* C18 amended: a step changes the GameState only if it handles a key event
\* (ENTER, P or R) or is the simulation step of a Playing frame that leaves a
\* score at score_to_win or more, which changes it from Playing to GameOver;
\* a simulation step that leaves both scores below score_to_win, and every
\* other step of a frame that is not a key event, leaves the GameState alone.
C18_InputOrWinChangesState ==
    [][/\ (state' # state =>
             \/ KeyReturn \/ KeyP \/ KeyR
             \/ /\ pc = "update"
                /\ state = PLAYING /\ state' = GAMEOVER
                /\ (left_score' >= score_to_win \/ right_score' >= score_to_win))
       /\ (pc = "update" /\ (left_score' >= score_to_win \/ right_score' >= score_to_win)
             => state' = GAMEOVER)
       /\ (pc = "update" /\ left_score' < score_to_win /\ right_score' < score_to_win
             => state' = state)
       /\ (pc' # pc /\ pc # "update" => state' = state)]_vars

\* C18 witness: the shortest match: its last simulation step has scored the
\* winning point and left the state GameOver.
C18_Witness ==
    /\ pc = "tick"
    /\ obs.stepped
    /\ state = GAMEOVER
    /\ steps = score_to_win
    /\ left_score + right_score = score_to_win

\* C19: a simulation step changes at most one score, by exactly 1, and no
\* other step raises a score; in every reachable state both scores are
\* within 0..score_to_win, they are not both score_to_win, and the state is
\* GameOver exactly when one of them is score_to_win.
C19_Scores ==
    /\ [](/\ 0 <= left_score /\ left_score <= score_to_win
          /\ 0 <= right_score /\ right_score <= score_to_win
          /\ ~(left_score = score_to_win /\ right_score = score_to_win)
          /\ (state = GAMEOVER <=>
                left_score = score_to_win \/ right_score = score_to_win))
    /\ [][/\ (pc = "update" =>
                 \/ left_score' = left_score /\ right_score' = right_score
                 \/ left_score' = left_score + 1 /\ right_score' = right_score
                 \/ left_score' = left_score /\ right_score' = right_score + 1)
          /\ (left_score' > left_score \/ right_score' > right_score
                 => pc = "update")]_vars

\* C19 witness: a match in which both players came within one point of
\* winning has ended 6 : 7.
C19_Witness ==
    /\ state = GAMEOVER
    /\ left_score = score_to_win - 1
    /\ right_score = score_to_win
    /\ pc = "tick"

\* C20: the ball's horizontal direction is never 0 and changes sign only in a
\* simulation step with a paddle bounce or a serve after a goal, or at
\* restart; the left paddle bounces the ball only when it was moving left,
\* leaves it moving right, and was not the paddle of the last bounce since the
\* last serve (so a bounce on the other paddle or a serve lies between two
\* bounces on the same paddle); the same for the right paddle; and ball.speed
\* is raised only in a step with such a bounce.
C20_DirectionChanges ==
    /\ [](ball.vx # 0)
    /\ [][/\ ((ball.vx' > 0) # (ball.vx > 0) =>
                 ContactStep \/ GoalStep \/ RestartStep)
          /\ (pc = "update" /\ obs'.bounce_left =>
                 last_bounce # "left" /\ ball.vx < 0 /\ ball.vx' > 0)
          /\ (pc = "update" /\ obs'.bounce_right =>
                 last_bounce # "right" /\ ball.vx > 0 /\ ball.vx' < 0)
          /\ (ball.speed' > ball.speed =>
                 pc = "update" /\ (obs'.bounce_left \/ obs'.bounce_right))]_vars

\* C20 witness: the left paddle has just bounced the ball for the second time
\* in a rally, the right paddle having bounced it in between.
C20_Witness ==
    /\ pc = "tick"
    /\ obs.bounce_left
    /\ last_bounce = "left"
    /\ rally_hits >= 4
    /\ ball.vx > 0

====
